---- MODULE Spec2Model ----
(***************************************************************************)
(* Response-orchestration core of the chatbot backend:                     *)
(*   - RateLimiter          (backend/src/utils/rate-limiter.js)            *)
(*   - QueryCache           (backend/src/utils/query-cache.js)             *)
(*   - PythonProcessManager (backend/src/utils/pythonProcessManager.js)    *)
(*   - POST /message        (the chat route: cache lookup, generation,     *)
(*                           cache store)                                  *)
(* Each component has its own next-state relation and specification over   *)
(* the shared variables; a component's actions leave the others' state     *)
(* unchanged.                                                              *)
(*                                                                         *)
(* Time is the value of Date.now(), a natural number of abstract           *)
(* milliseconds.  The durations of the program (15 min window, 1 h block,  *)
(* 60 min TTL, 1000 ms per second) are scaled down to a few ticks; the     *)
(* comparisons (<, >, >=) are the source's.                                *)
(***************************************************************************)
EXTENDS Integers, Sequences, FiniteSets, TLC

\* ------------------------------------------------------------------ bounds

\* Last value of the clock (rate limiter).
MaxTime == 6
\* Last value of the clock (cache).
MaxCacheTime == 4
\* Scaled default window length (rate-limiter.js:2, 15 * 60 * 1000).
WindowMs == 2
\* A window length longer than the block duration.
LongWindowMs == 5
\* Scaled default block duration (rate-limiter.js:24, 60 * 60 * 1000).
BlockMs == 4
\* Largest configured ceiling (maxRequests); the default is 100.
MaxCeiling == 2
\* Scaled number of milliseconds per second (the source divides by 1000).
MsPerSec == 2

\* Scaled capacity of the cache (maxSize; the default is 1000).
CacheMaxSize == 1
\* Scaled time to live of a cache entry (the default is 60 minutes).
TtlMs == 2
\* Largest hit count of one entry.
MaxHits == 3
\* Largest capacity the cache is constructed with in the eviction runs.
MaxCapacity == 3

\* Largest number of exchanges (question and answer) the sessions hold in all.
MaxExchanges == 2

\* Largest number of addToHistory calls made for one session.
MaxAppends == 22

\* Largest number of documents the index holds twice.
MaxCopies == 1

\* Largest number of chunks the children write to stdout, and to stderr, in all.
MaxOut == 2
MaxErr == 1
\* this.processTimeout as constructed (30 seconds).
DefaultProcessTimeout == 30000

\* Caller identities (req.ip).
IPs == {"ip-A", "ip-B"}

\* The handler slots: the chat requests that may be in flight together.
Reqs == {"r1", "r2"}

\* The (query, provider, useRag, topK) of the chat requests.
Tuples == { <<"q1", "gemini", TRUE, 3>>, <<"q1", "gemini", TRUE, 5>> }

\* The texts a generation may return.
Responses == {"R1", "R2"}

\* The executeScript invocations (one process id each).
Procs == {"p1", "p2"}

\* What a child writes to stdout in one chunk: white space, a complete JSON
\* text, or text that is not JSON.
StdoutChunks == {" ", "{}", "x"}

\* What a child writes to stderr in one chunk.
StderrChunks == {" ", "w"}

\* The code 'close' reports for a child ended by a signal (null).
NullCode == -1

\* The codes a 'close' event reports.
ExitCodes == {0, 1, NullCode}

VARIABLES
    now,            \* Date.now()
    \* RateLimiter
    windowMs,       \* this.windowMs
    maxRequests,    \* this.maxRequests
    requests,       \* this.requests   : IP -> [count, resetTime]
    blockedIPs,     \* this.blockedIPs : IP -> block expiry time
    rlLast,         \* the last checkLimit call: its arguments, the state it saw, its result
    hEpisode,       \* per caller: the checkLimit calls counted since the caller was unknown
    \* QueryCache and the chat route
    maxSize,        \* this.maxSize
    cache,          \* this.cache: the Map's entries in insertion order
    setLast,        \* the last set call: what it found, what it removed, what it kept
    reqs,           \* the chat requests: where each handler stands, and its reply
    cLast,          \* the last lookup (get or has): its arguments, what it saw, its result
    hStored,        \* per four-tuple: when it was last stored, and the hits since
    \* PythonProcessManager
    processTimeout, \* this.processTimeout
    activeProcesses,\* this.activeProcesses: the process ids registered
    procs,          \* the executeScript invocations: promise, child process, timer, output
    serverUp,       \* the server process has not exited
    \* RelatedQuestions and the similarity index
    searchHits,     \* what the index returns for the query, best hit first
    relLast,        \* the last retrieval-path answer: the hits, the context, the related questions
    \* ConversationalChatbot
    conversationHistory, \* this.conversationHistory: session -> turns, oldest first
    hAppended,      \* per session: the number of addToHistory calls made
    genLast,        \* the last direct generateResponse call: arguments, history found, provider invocations, result
    \* What the rate limiter has written
    emitted,        \* the caller identities in its log lines and statistics records
    \* POST /message
    routeLast,      \* the last chat request: its body, the reply, what it ran
    hReplied,       \* per chat session: the requests answered with a reply so far
    \* generateResponse calls in flight on one chatbot
    inFlight,       \* per call: the await it stands at, its session, its path
    hCompleted      \* the calls whose provider invocation returned a reply, in that order

rlVars == <<windowMs, maxRequests, requests, blockedIPs, rlLast, hEpisode>>

cacheVars == <<maxSize, cache, setLast, reqs, cLast, hStored>>

pmVars == <<processTimeout, activeProcesses, procs, serverUp>>

relVars == <<searchHits, relLast>>

botVars == <<conversationHistory, hAppended, genLast>>

outVars == <<emitted>>

routeVars == <<routeLast, hReplied>>

flightVars == <<inFlight, hCompleted>>

appVars == <<relVars, botVars, outVars, routeVars, flightVars>>

vars == <<now, rlVars, cacheVars, pmVars, appVars>>

\* ---------------------------------------------------------------- helpers

\* A Map without key k.
MapDelete(m, k) == [x \in DOMAIN m \ {k} |-> m[x]]

\* A Map with key k set to v.
MapSet(m, k, v) == [x \in DOMAIN m \cup {k} |-> IF x = k THEN v ELSE m[x]]

\* The empty Map.
EmptyMap == [x \in {} |-> 0]

\* Math.ceil(a / b) for b > 0 (a may be negative).
CeilDiv(a, b) == IF a >= 0 THEN (a + b - 1) \div b ELSE -((-a) \div b)

\* ============================================================ RateLimiter

NoResult == [allowed |-> FALSE, reason |-> "none", remainingTime |-> 0,
             remainingRequests |-> 0, resetTime |-> 0]

Allow(remaining, reset) ==
    [allowed |-> TRUE, reason |-> "", remainingTime |-> 0,
     remainingRequests |-> remaining, resetTime |-> reset]

Deny(reason, seconds) ==
    [allowed |-> FALSE, reason |-> reason, remainingTime |-> seconds,
     remainingRequests |-> 0, resetTime |-> 0]

\* isBlocked with the request window consulted first (mutant).
isBlocked_windowFirst(ip) ==
    /\ ip \in DOMAIN blockedIPs
    /\ now < blockedIPs[ip]
    /\ ip \in DOMAIN requests
    /\ now <= requests[ip].resetTime

\* isBlocked(ip): its return value.
isBlocked(ip) ==
    /\ ip \in DOMAIN blockedIPs
    /\ now < blockedIPs[ip]

\* isBlocked(ip): this.blockedIPs after the call (an expired block is removed).
isBlockedCleanup(ip) ==
    IF ip \in DOMAIN blockedIPs /\ ~(now < blockedIPs[ip])
    THEN MapDelete(blockedIPs, ip)
    ELSE blockedIPs

\* blockIP(ip, durationMs): this.blockedIPs after the call.
blockIP(blocked, ip, durationMs) == MapSet(blocked, ip, now + durationMs)

\* The characters of a caller identity (their char codes).
IPText(ip) == IF ip = "ip-A" THEN <<105, 112, 45, 65>> ELSE <<105, 112, 45, 66>>

\* A 32-bit integer is kept as its two 16-bit halves [hi, lo].
\* hashIP's loop: hash = (hash << 5) - hash + char, then hash & hash (the value
\* as a 32-bit integer): 31 * hash + char modulo 2^32.
RECURSIVE HashChars(_, _)
HashChars(hash, chars) ==
    IF chars = <<>> THEN hash
    ELSE LET lo == hash.lo * 31 + Head(chars)
             hi == hash.hi * 31 + (lo \div 65536)
         IN  HashChars([hi |-> hi % 65536, lo |-> lo % 65536], Tail(chars))

\* Math.abs of a 32-bit integer given by its halves (a set sign bit: negative).
Abs32(hash) ==
    IF hash.hi < 32768 THEN hash.hi * 65536 + hash.lo
    ELSE (65535 - hash.hi) * 65536 + (65536 - hash.lo)

\* Number.prototype.toString(36): the characters of the digits.
RECURSIVE ToString36(_)
ToString36(n) ==
    LET d  == n % 36
        ch == IF d < 10 THEN 48 + d ELSE 87 + d
    IN  IF n < 36 THEN <<ch>> ELSE Append(ToString36(n \div 36), ch)

\* hashIP(ip)
hashIP(ip) == ToString36(Abs32(HashChars([hi |-> 0, lo |-> 0], IPText(ip))))

\* console.log(`IP ${ip} blocked for ${durationMs / 1000} seconds`)
blockIPLog(ip) == [surface |-> "log", id |-> IPText(ip)]

\* getStats(): the ip fields of activeRequests and of blockedIPs.
getStatsIds ==
    {[surface |-> "stats", id |-> hashIP(ip)] :
        ip \in {x \in DOMAIN requests : now < requests[x].resetTime}
               \cup {x \in DOMAIN blockedIPs : now < blockedIPs[x]}}

\* The window has expired (now > userRequests.resetTime).
WindowExpired(t, resetTime) == t > resetTime

\* The limit test with > for >= (mutant).
LimitExceeded_offByOne(count, max) == count > max

\* The limit is exceeded (userRequests.count >= this.maxRequests).
LimitExceeded(count, max) == count >= max

\* checkLimit(ip): the returned object.
checkLimitResult(ip) ==
    IF isBlocked(ip)
    THEN Deny("IP is temporarily blocked", CeilDiv(blockedIPs[ip] - now, MsPerSec))
    ELSE IF ip \notin DOMAIN requests
    THEN Allow(maxRequests - 1, now + windowMs)
    ELSE IF WindowExpired(now, requests[ip].resetTime)
    THEN Allow(maxRequests - 1, now + windowMs)
    ELSE IF LimitExceeded(requests[ip].count, maxRequests)
    THEN Deny("Rate limit exceeded", CeilDiv(requests[ip].resetTime - now, MsPerSec))
    ELSE Allow(maxRequests - (requests[ip].count + 1), requests[ip].resetTime)

\* checkLimit(ip): this.requests after the call.
checkLimitRequests(ip) ==
    IF isBlocked(ip)
    THEN requests
    ELSE IF ip \notin DOMAIN requests \/ WindowExpired(now, requests[ip].resetTime)
    THEN MapSet(requests, ip, [count |-> 1, resetTime |-> now + windowMs])
    ELSE IF LimitExceeded(requests[ip].count, maxRequests)
    THEN requests
    ELSE MapSet(requests, ip, [requests[ip] EXCEPT !.count = @ + 1])

\* checkLimit(ip): this.blockedIPs after the call.
checkLimitBlocked(ip) ==
    IF isBlocked(ip)
    THEN blockedIPs
    ELSE IF /\ ip \in DOMAIN requests
            /\ ~WindowExpired(now, requests[ip].resetTime)
            /\ LimitExceeded(requests[ip].count, maxRequests)
    THEN blockIP(isBlockedCleanup(ip), ip, BlockMs)
    ELSE isBlockedCleanup(ip)

\* checkLimit(ip): the log line written, if any (by blockIP).
checkLimitLog(ip) ==
    IF /\ ~isBlocked(ip)
       /\ ip \in DOMAIN requests
       /\ ~WindowExpired(now, requests[ip].resetTime)
       /\ LimitExceeded(requests[ip].count, maxRequests)
    THEN {blockIPLog(ip)}
    ELSE {}

NoEpisode == [n |-> 0, t0 |-> 0, allowed |-> FALSE, reason |-> "none", blockFor |-> 0]

\* The caller is unknown to the limiter: no window record and no block record.
Unknown(ip) == ip \notin DOMAIN requests /\ ip \notin DOMAIN blockedIPs

\* History: the calls of one caller counted from the call that found it unknown,
\* for as long as they fall inside the window that call opened; with the last
\* counted call's answer and the length of the block it left (0: no block).
EpisodeAfterCall(ip) ==
    LET e == hEpisode[ip]
        rec(n, t0) == [n |-> n, t0 |-> t0,
                       allowed |-> checkLimitResult(ip).allowed,
                       reason |-> checkLimitResult(ip).reason,
                       blockFor |-> IF ip \in DOMAIN checkLimitBlocked(ip)
                                    THEN checkLimitBlocked(ip)[ip] - now ELSE 0]
    IN  IF Unknown(ip) THEN rec(1, now)
        ELSE IF e.n \in 1..maxRequests /\ now <= e.t0 + windowMs THEN rec(e.n + 1, e.t0)
        ELSE NoEpisode

\* checkLimit(ip): what the call changes.
CheckLimitEffects(ip) ==
    /\ requests' = checkLimitRequests(ip)
    /\ blockedIPs' = checkLimitBlocked(ip)
    /\ rlLast' = [made |-> TRUE, ip |-> ip, at |-> now,
                  blockedUntil |-> IF ip \in DOMAIN blockedIPs THEN blockedIPs[ip] ELSE 0,
                  window |-> IF ip \notin DOMAIN requests THEN "none"
                             ELSE IF now > requests[ip].resetTime THEN "expired"
                             ELSE "open",
                  res |-> checkLimitResult(ip)]
    /\ hEpisode' = [hEpisode EXCEPT ![ip] = EpisodeAfterCall(ip)]
    /\ emitted' = emitted \cup checkLimitLog(ip)

\* checkLimit(ip), called on its own.
CheckLimit(ip) ==
    /\ CheckLimitEffects(ip)
    /\ UNCHANGED <<now, windowMs, maxRequests, cacheVars, pmVars, relVars, botVars, routeVars, flightVars>>

\* getStats()
GetStats ==
    /\ emitted' = emitted \cup getStatsIds
    /\ emitted' # emitted
    /\ UNCHANGED <<now, rlVars, cacheVars, pmVars, relVars, botVars, routeVars, flightVars>>

\* clearExpired()
ClearExpired ==
    /\ \E ip \in IPs :
          \/ ip \in DOMAIN requests /\ now > requests[ip].resetTime
          \/ ip \in DOMAIN blockedIPs /\ now > blockedIPs[ip]
    /\ requests' = [ip \in {x \in DOMAIN requests : ~(now > requests[x].resetTime)}
                       |-> requests[ip]]
    /\ blockedIPs' = [ip \in {x \in DOMAIN blockedIPs : ~(now > blockedIPs[x])}
                       |-> blockedIPs[ip]]
    /\ UNCHANGED <<now, windowMs, maxRequests, rlLast, hEpisode, cacheVars, pmVars, appVars>>

\* resetIP(ip)
ResetIP(ip) ==
    /\ ip \in DOMAIN requests \/ ip \in DOMAIN blockedIPs
    /\ requests' = MapDelete(requests, ip)
    /\ blockedIPs' = MapDelete(blockedIPs, ip)
    /\ hEpisode' = [hEpisode EXCEPT ![ip] = NoEpisode]
    /\ UNCHANGED <<now, windowMs, maxRequests, rlLast, cacheVars, pmVars, appVars>>

\* The limiter as constructed, for each configuration.
InitRateLimiter ==
    /\ requests = EmptyMap
    /\ blockedIPs = EmptyMap
    /\ rlLast = [made |-> FALSE, ip |-> "ip-A", at |-> 0, blockedUntil |-> 0,
                 window |-> "none", res |-> NoResult]
    /\ hEpisode = [ip \in IPs |-> NoEpisode]

\* ============================================================= QueryCache

\* `${useRag}` of the key template.
BoolStr(b) == IF b THEN "true" ELSE "false"

\* generateKey(query, provider, useRag, topK): the key data
\* `${query}|${provider}|${useRag}|${topK}`; its md5 digest is taken to be
\* collision-free, so the key data stands for the digest.
generateKey(t) == <<t[1], "|", t[2], "|", BoolStr(t[3]), "|", t[4]>>

\* Position of the entry with this key in the Map (0: no such entry).
KeyIndex(c, key) ==
    IF \E i \in 1..Len(c) : c[i].key = key
    THEN CHOOSE i \in 1..Len(c) : c[i].key = key
    ELSE 0

\* this.cache.delete(key)
CacheDelete(c, key) == SelectSeq(c, LAMBDA e : e.key # key)

\* The expiry test that lets an entry live one tick longer (mutant).
Expired_late(t, timestamp) == t - timestamp > TtlMs + 1

\* The entry has expired (Date.now() - entry.timestamp > this.ttl).
Expired(t, timestamp) == t - timestamp > TtlMs

\* set(query, provider, useRag, topK, response): this.cache after the call.  A
\* cache at capacity loses its first key; Map.set keeps the position of a key
\* that is present and appends a new one.
cacheSet(c, t, response) ==
    LET key == generateKey(t)
        c1 == IF Len(c) >= maxSize THEN Tail(c) ELSE c
        e == [key |-> key, response |-> response, timestamp |-> now, hits |-> 1]
        i == KeyIndex(c1, key)
    IN  IF i = 0 THEN Append(c1, e) ELSE [c1 EXCEPT ![i] = e]

\* History: no set call yet.
NoSet == [made |-> FALSE, tuple |-> <<>>, full |-> FALSE, removed |-> <<>>, kept |-> <<>>]

\* History of a set call: whether it found the cache at capacity, the entries it
\* removed to make room, and the entries it kept, before it wrote its own.
SetRecord(c, t) ==
    [made    |-> TRUE,
     tuple   |-> t,
     full    |-> Len(c) >= maxSize,
     removed |-> IF Len(c) >= maxSize THEN SubSeq(c, 1, 1) ELSE <<>>,
     kept    |-> IF Len(c) >= maxSize THEN Tail(c) ELSE c]

\* A handler slot with no request on it.
IdleReq == [pc |-> "idle", tuple |-> <<>>]

\* The value get reports for "no entry" (null).
Null == [found |-> FALSE, response |-> "null", cached |-> FALSE, cacheHits |-> 0,
         cacheAge |-> 0]

\* get(query, provider, useRag, topK): the returned value.
cacheGetResult(c, t) ==
    LET i == KeyIndex(c, generateKey(t))
    IN  IF i = 0 THEN Null
        ELSE IF Expired(now, c[i].timestamp) THEN Null
        ELSE [found |-> TRUE, response |-> c[i].response, cached |-> TRUE,
              cacheHits |-> c[i].hits + 1,
              cacheAge |-> (now - c[i].timestamp) \div MsPerSec]

\* get(query, provider, useRag, topK): this.cache after the call.  (The hit also
\* writes entry.lastAccessed, which nothing reads; the model leaves it out.)
cacheGet(c, t) ==
    LET i == KeyIndex(c, generateKey(t))
    IN  IF i = 0 THEN c
        ELSE IF Expired(now, c[i].timestamp) THEN CacheDelete(c, generateKey(t))
        ELSE [c EXCEPT ![i].hits = @ + 1]

\* has(query, provider, useRag, topK): the returned value.
cacheHasResult(c, t) ==
    LET i == KeyIndex(c, generateKey(t))
    IN  i # 0 /\ ~Expired(now, c[i].timestamp)

\* has(query, provider, useRag, topK): this.cache after the call.
cacheHas(c, t) ==
    LET i == KeyIndex(c, generateKey(t))
    IN  IF i # 0 /\ Expired(now, c[i].timestamp)
        THEN CacheDelete(c, generateKey(t))
        ELSE c

\* cleanup(): this.cache after the periodic sweep.
cacheCleanup(c) == SelectSeq(c, LAMBDA e : ~Expired(now, e.timestamp))

\* History: no earlier hit.
NoHit == [tuple |-> <<>>, response |-> "none", cacheHits |-> 0, storedAt |-> 0]

\* History: no lookup yet.
NoLookup == [made |-> FALSE, op |-> "get", tuple |-> <<>>, at |-> 0, storedAt |-> 0,
             present |-> FALSE, found |-> FALSE, response |-> "none",
             cached |-> FALSE, cacheHits |-> 0, hitNo |-> 0, prev |-> NoHit]

\* History of a lookup: when the tuple was last stored, and whether an entry for
\* it was physically in the Map.
LookupRecord(op, t, found) ==
    [NoLookup EXCEPT !.made = TRUE, !.op = op, !.tuple = t, !.at = now,
                     !.storedAt = hStored[t].at,
                     !.present = KeyIndex(cache, generateKey(t)) # 0,
                     !.found = found]

\* History: the hit the last lookup was, if it was one.
LastHit ==
    IF cLast.made /\ cLast.op = "get" /\ cLast.found
    THEN [tuple |-> cLast.tuple, response |-> cLast.response,
          cacheHits |-> cLast.cacheHits, storedAt |-> cLast.storedAt]
    ELSE NoHit

\* ------------------------------------------------- POST /message (cache part)

\* A new chat request arrives on a free handler slot and reaches "Check cache
\* first": queryCache.get(message, provider, useRag, topK).  A hit is the reply
\* ({...cachedResult, cached: true}); a miss starts the generation, which the
\* handler awaits.
ReqLookup(r, t) ==
    /\ reqs[r].pc = "idle"
    /\ LET res == cacheGetResult(cache, t)
       IN  /\ res.found => res.cacheHits <= MaxHits
           /\ cache' = cacheGet(cache, t)
           /\ cLast' = IF res.found
                       THEN [LookupRecord("get", t, TRUE) EXCEPT
                                !.response = res.response,
                                !.cached = res.cached,
                                !.cacheHits = res.cacheHits,
                                !.hitNo = hStored[t].hits + 1,
                                !.prev = LastHit]
                       ELSE LookupRecord("get", t, FALSE)
           /\ IF res.found
              THEN /\ UNCHANGED reqs
                   /\ hStored' = [hStored EXCEPT ![t].hits = @ + 1]
              ELSE /\ reqs' = [reqs EXCEPT ![r] = [pc |-> "generating", tuple |-> t]]
                   /\ UNCHANGED hStored
    /\ UNCHANGED <<now, rlVars, pmVars, maxSize, setLast, appVars>>

\* The awaited generation returns a result without an error field: the handler
\* stores it (queryCache.set) and replies with it.
ReqGenerated(r, text) ==
    /\ reqs[r].pc = "generating"
    /\ cache' = cacheSet(cache, reqs[r].tuple, text)
    /\ setLast' = SetRecord(cache, reqs[r].tuple)
    /\ hStored' = [hStored EXCEPT ![reqs[r].tuple] = [at |-> now, hits |-> 0]]
    /\ reqs' = [reqs EXCEPT ![r] = IdleReq]
    /\ UNCHANGED <<now, rlVars, pmVars, maxSize, cLast, appVars>>

\* The awaited generation throws, or its result has an error field: the handler
\* throws before queryCache.set and answers 500.
ReqFailed(r) ==
    /\ reqs[r].pc = "generating"
    /\ reqs' = [reqs EXCEPT ![r] = IdleReq]
    /\ UNCHANGED <<now, rlVars, pmVars, maxSize, cache, setLast, cLast, hStored, appVars>>

\* has(query, provider, useRag, topK)
Has(t) ==
    /\ cLast' = LookupRecord("has", t, cacheHasResult(cache, t))
    /\ cache' = cacheHas(cache, t)
    /\ UNCHANGED <<now, rlVars, pmVars, maxSize, setLast, reqs, hStored, appVars>>

\* The cleanup interval fires.
Cleanup ==
    /\ cache' = cacheCleanup(cache)
    /\ cache' # cache
    /\ UNCHANGED <<now, rlVars, pmVars, maxSize, setLast, reqs, cLast, hStored, appVars>>

\* The keys of the direct calls: three queries that differ in topK.
EvictionTuples == { <<"q1", "gemini", TRUE, k>> : k \in 1..3 }

\* set(query, provider, useRag, topK, response), called on its own.
Set(t, response) ==
    /\ cache' = cacheSet(cache, t, response)
    /\ setLast' = SetRecord(cache, t)
    /\ UNCHANGED <<now, rlVars, pmVars, maxSize, reqs, cLast, hStored, appVars>>

\* get(query, provider, useRag, topK), called on its own.
Get(t) ==
    /\ cacheGetResult(cache, t).found => cacheGetResult(cache, t).cacheHits <= MaxHits
    /\ cache' = cacheGet(cache, t)
    /\ cache' # cache
    /\ UNCHANGED <<now, rlVars, pmVars, maxSize, setLast, reqs, cLast, hStored, appVars>>

InitCache ==
    /\ maxSize = CacheMaxSize
    /\ setLast = NoSet
    /\ cache = <<>>
    /\ reqs = [r \in Reqs |-> IdleReq]
    /\ cLast = NoLookup
    /\ hStored = [t \in Tuples |-> [at |-> 0, hits |-> 0]]

\* =================================================== PythonProcessManager

\* String.prototype.trim on a text given as its chunks: leading and trailing
\* white space is dropped.
RECURSIVE TrimLeft(_)
TrimLeft(s) == IF s # <<>> /\ Head(s) = " " THEN TrimLeft(Tail(s)) ELSE s

RECURSIVE TrimRight(_)
TrimRight(s) ==
    IF s # <<>> /\ s[Len(s)] = " " THEN TrimRight(SubSeq(s, 1, Len(s) - 1)) ELSE s

Trim(s) == TrimRight(TrimLeft(s))

\* JSON.parse(text) does not throw: the text is exactly one JSON text.
IsJSON(s) == s = <<"{}">>

Pending == [kind |-> "pending", code |-> 0, out |-> <<>>, err |-> <<>>]

\* reject(new Error(`Python script not found: ...`))
ScriptNotFound == [Pending EXCEPT !.kind = "script_not_found"]

\* The Promise executor throws what spawn threw: the promise is rejected with
\* that error as it is.
SpawnThrown == [Pending EXCEPT !.kind = "thrown"]

\* reject(new Error(`Failed to start Python process: ${error.message}`))
SpawnError == [Pending EXCEPT !.kind = "spawn_error"]

\* reject(new Error(`Python process timeout: ${scriptName}`))
TimeoutError == [Pending EXCEPT !.kind = "timeout"]

\* A close handler that takes output on stderr for a failure (mutant).
CloseResult_stderrFails(code, out, err) ==
    IF code = 0 /\ err = <<>>
    THEN IF IsJSON(Trim(out))
         THEN [kind |-> "parsed", code |-> 0, out |-> Trim(out), err |-> <<>>]
         ELSE [kind |-> "raw", code |-> 0, out |-> Trim(out), err |-> Trim(err)]
    ELSE [kind |-> "exit_error", code |-> code, out |-> <<>>, err |-> err]

\* The 'close' handler: what it passes to resolve (code === 0: the parsed stdout,
\* or {output, stderr} when JSON.parse throws) or to reject (any other code: the
\* exit code and stderr).
CloseResult(code, out, err) ==
    IF code = 0
    THEN IF IsJSON(Trim(out))
         THEN [kind |-> "parsed", code |-> 0, out |-> Trim(out), err |-> <<>>]
         ELSE [kind |-> "raw", code |-> 0, out |-> Trim(out), err |-> Trim(err)]
    ELSE [kind |-> "exit_error", code |-> code, out |-> <<>>, err |-> err]

\* resolve / reject on the promise of one invocation: the first call settles it,
\* later calls change nothing.
Settle(outcome, o) == IF outcome.kind = "pending" THEN o ELSE outcome

\* A handler that leaves the timer running (mutant).
ClearTimeout_forgotten(timer) == timer

\* if (timeoutId) clearTimeout(timeoutId)
ClearTimeout(timer) == IF timer = "armed" THEN "cleared" ELSE timer

\* killProcess that drops the entry without signalling the child (mutant).
killProcessSignals_never(registry, p) == FALSE

\* killProcess(processId): the child is sent SIGTERM (only a registered one).
killProcessSignals(registry, p) == p \in registry

\* killProcess(processId): this.activeProcesses after the call.
killProcessRegistry(registry, p) == registry \ {p}

\* The names of the variables in the server's own environment (process.env):
\* what the configuration reads, and the search path.
ProcessEnv ==
    {"PATH", "NODE_ENV", "MONGODB_URI", "JWT_SECRET", "GOOGLE_API_KEY", "QDRANT_URL"}

\* The names executeScript sets from the configuration.
WorkerEnv ==
    {"GOOGLE_API_KEY", "QDRANT_API_KEY", "OPENAI_API_KEY", "DEEPSEEK_API_KEY",
     "QDRANT_URL", "QDRANT_COLLECTION_NAME"}

\* const env = {...process.env, GOOGLE_API_KEY: ..., ...}: the names in it.
SpawnEnv(parent) == parent \cup WorkerEnv

\* An invocation not made yet.
NoProc == [pc |-> "idle", child |-> "none", timer |-> "none", env |-> {},
           stdout |-> <<>>, stderr |-> <<>>, outcome |-> Pending,
           closed |-> FALSE, errored |-> FALSE, exitCode |-> 0,
           closeCall |-> Pending, kills |-> 0]

\* executeScript(scriptName, args) is called: it awaits fs.access(scriptPath).
ExecuteScript(p) ==
    /\ serverUp
    /\ procs[p].pc = "idle"
    /\ procs' = [procs EXCEPT ![p].pc = "access"]
    /\ UNCHANGED <<now, rlVars, cacheVars, processTimeout, activeProcesses, serverUp, appVars>>

\* fs.access fails: executeScript throws "Python script not found".
ScriptMissing(p) ==
    /\ serverUp
    /\ procs[p].pc = "access"
    /\ procs' = [procs EXCEPT ![p].pc = "missing", ![p].outcome = ScriptNotFound]
    /\ UNCHANGED <<now, rlVars, cacheVars, processTimeout, activeProcesses, serverUp, appVars>>

\* The script exists and spawn throws: the executor stops at the spawn call,
\* before the registry insert, the timer and the handlers.
SpawnThrows(p) ==
    /\ serverUp
    /\ procs[p].pc = "access"
    /\ procs' = [procs EXCEPT ![p].pc = "threw", ![p].outcome = SpawnThrown]
    /\ UNCHANGED <<now, rlVars, cacheVars, processTimeout, activeProcesses, serverUp, appVars>>

\* The script exists and spawn returns a child: the executor registers it, arms
\* the timer (processTimeout > 0) and installs the handlers.  The child runs
\* (starts) or could not be started and will emit 'error'.
Spawn(p, starts) ==
    /\ serverUp
    /\ procs[p].pc = "access"
    /\ activeProcesses' = activeProcesses \cup {p}
    /\ procs' = [procs EXCEPT
            ![p].pc = "running",
            ![p].child = IF starts THEN "alive" ELSE "failing",
            ![p].env = SpawnEnv(ProcessEnv),
            ![p].timer = IF processTimeout > 0 THEN "armed" ELSE "none"]
    /\ UNCHANGED <<now, rlVars, cacheVars, processTimeout, serverUp, appVars>>

\* The number of chunks received so far on one stream (f: stdout or stderr) of
\* the processes ps.
RECURSIVE Received(_, _)
Received(ps, f) ==
    IF ps = {} THEN 0
    ELSE LET p == CHOOSE x \in ps : TRUE
         IN  Len(f[p]) + Received(ps \ {p}, f)

\* pythonProcess.stdout 'data'
StdoutData(p, chunk) ==
    /\ serverUp
    /\ procs[p].child = "alive"
    /\ Received(Procs, [q \in Procs |-> procs[q].stdout]) < MaxOut
    /\ procs' = [procs EXCEPT ![p].stdout = Append(@, chunk)]
    /\ UNCHANGED <<now, rlVars, cacheVars, processTimeout, activeProcesses, serverUp, appVars>>

\* pythonProcess.stderr 'data'
StderrData(p, chunk) ==
    /\ serverUp
    /\ procs[p].child = "alive"
    /\ Received(Procs, [q \in Procs |-> procs[q].stderr]) < MaxErr
    /\ procs' = [procs EXCEPT ![p].stderr = Append(@, chunk)]
    /\ UNCHANGED <<now, rlVars, cacheVars, processTimeout, activeProcesses, serverUp, appVars>>

\* pythonProcess 'close': the child has exited (a child that could not be
\* started closes, if at all, after its 'error' and with a code other than 0).
ChildClose(p, code) ==
    /\ serverUp
    /\ ~procs[p].closed
    /\ \/ procs[p].child = "alive"
       \/ procs[p].child = "failing" /\ procs[p].errored /\ code = 1
    /\ activeProcesses' = activeProcesses \ {p}
    /\ procs' = [procs EXCEPT
            ![p].child = "exited",
            ![p].closed = TRUE,
            ![p].exitCode = code,
            ![p].timer = ClearTimeout(@),
            ![p].closeCall = CloseResult(code, procs[p].stdout, procs[p].stderr),
            ![p].outcome = Settle(@, CloseResult(code, procs[p].stdout, procs[p].stderr))]
    /\ UNCHANGED <<now, rlVars, cacheVars, processTimeout, serverUp, appVars>>

\* pythonProcess 'error': the child could not be started.
ChildError(p) ==
    /\ serverUp
    /\ procs[p].child = "failing"
    /\ ~procs[p].errored
    /\ activeProcesses' = activeProcesses \ {p}
    /\ procs' = [procs EXCEPT
            ![p].errored = TRUE,
            ![p].timer = ClearTimeout(@),
            ![p].outcome = Settle(@, SpawnError)]
    /\ UNCHANGED <<now, rlVars, cacheVars, processTimeout, serverUp, appVars>>

\* A child that could not be started emits 'error' on the next tick, ahead of
\* every timer and every signal handler: while that is due, nothing else runs
\* against the invocation.
ErrorDue(p) == procs[p].child = "failing" /\ ~procs[p].errored

\* The timer set by executeScript fires: killProcess(processId), then reject.
Timeout(p) ==
    /\ serverUp
    /\ procs[p].timer = "armed"
    /\ ~ErrorDue(p)
    /\ activeProcesses' = killProcessRegistry(activeProcesses, p)
    /\ procs' = [procs EXCEPT
            ![p].timer = "fired",
            ![p].kills = IF killProcessSignals(activeProcesses, p) THEN @ + 1 ELSE @,
            ![p].outcome = Settle(@, TimeoutError)]
    /\ UNCHANGED <<now, rlVars, cacheVars, processTimeout, serverUp, appVars>>

\* killProcess(processId) called on a registered process.
KillProcess(p) ==
    /\ serverUp
    /\ p \in activeProcesses
    /\ ~ErrorDue(p)
    /\ activeProcesses' = killProcessRegistry(activeProcesses, p)
    /\ procs' = [procs EXCEPT
            ![p].kills = IF killProcessSignals(activeProcesses, p) THEN @ + 1 ELSE @]
    /\ UNCHANGED <<now, rlVars, cacheVars, processTimeout, serverUp, appVars>>

\* killAllProcesses(): killProcess on every entry of the registry.
killAllKills(registry, ps) ==
    [p \in Procs |-> IF p \in registry /\ killProcessSignals(registry, p)
                     THEN [ps[p] EXCEPT !.kills = @ + 1] ELSE ps[p]]

\* The listeners of SIGINT (and of SIGTERM) with the entry point's handlers
\* registered ahead of the process manager's (mutant).
SignalHandlers_entryFirst == <<"entry", "manager">>

\* The listeners of SIGINT (and of SIGTERM) in the order of their registration:
\* the entry point requires the application, and with it the process manager
\* that registers its handlers on load, before it registers its own.
SignalHandlers == <<"manager", "entry">>

\* One signal handler, run on st = [registry, ps, up].  The process manager's
\* runs killAllProcesses() and process.exit(0); the entry point's logs and runs
\* process.exit(0).
SignalHandler(h, st) ==
    IF h = "manager"
    THEN [registry |-> {p \in st.registry :
                           p \in killProcessRegistry(st.registry, p)},
          ps       |-> killAllKills(st.registry, st.ps),
          up       |-> FALSE]
    ELSE [st EXCEPT !.up = FALSE]

\* process.emit(signal): the listeners run one after the other, in the order of
\* registration, until one of them exits the process.
RECURSIVE RunSignalHandlers(_, _)
RunSignalHandlers(hs, st) ==
    IF hs = <<>> \/ ~st.up THEN st
    ELSE RunSignalHandlers(Tail(hs), SignalHandler(Head(hs), st))

\* SIGINT or SIGTERM reaches the server.
Shutdown ==
    /\ serverUp
    /\ \A p \in Procs : ~ErrorDue(p)
    /\ LET st == RunSignalHandlers(SignalHandlers,
                     [registry |-> activeProcesses, ps |-> procs, up |-> TRUE])
       IN  /\ procs' = st.ps
           /\ activeProcesses' = st.registry
           /\ serverUp' = st.up
    /\ UNCHANGED <<now, rlVars, cacheVars, processTimeout, appVars>>

InitProcessManager ==
    /\ activeProcesses = {}
    /\ procs = [p \in Procs |-> NoProc]
    /\ serverUp = TRUE

\* ======================================================== RelatedQuestions

\* A text is the sequence of its characters.
Letters == <<"a", "b", "c", "d", "e">>

\* String.prototype.toLowerCase, one character.
LowerChar(c) ==
    CASE c = "A" -> "a" [] c = "B" -> "b" [] c = "C" -> "c"
      [] c = "D" -> "d" [] c = "E" -> "e" [] c = "I" -> "i"
      [] c = "P" -> "p" [] OTHER -> c

\* One character in upper case.
UpperChar(c) ==
    CASE c = "a" -> "A" [] c = "b" -> "B" [] c = "c" -> "C"
      [] c = "d" -> "D" [] c = "e" -> "E" [] OTHER -> c

ToLowerCase(t) == [i \in 1..Len(t) |-> LowerChar(t[i])]

\* replace(/\s+/g, " "): every run of white space becomes one space.
RECURSIVE CollapseSpaces(_)
CollapseSpaces(t) ==
    IF t = <<>> THEN <<>>
    ELSE IF Head(t) = " " /\ Len(t) > 1 /\ t[2] = " " THEN CollapseSpaces(Tail(t))
    ELSE <<Head(t)>> \o CollapseSpaces(Tail(t))

\* result.question.toLowerCase().replace(/\s+/g, " ").trim()
CleanQuestion(t) == Trim(CollapseSpaces(ToLowerCase(t)))

\* The i-th document of the knowledge base: two words, no two documents alike.
Document(i) == <<Letters[((i - 1) \div 5) + 1], " ", Letters[((i - 1) % 5) + 1]>>

\* The same text entered again in another spelling: upper case, wider spacing.
Respelled(t) ==
    <<UpperChar(t[1]), " ", " ">> \o [i \in 1..(Len(t) - 2) |-> UpperChar(t[i + 2])] \o <<" ">>

\* const SKIP_COUNT = 8, TAKE_COUNT = 10; uniqueResults.slice(0, 4); the search
\* limit generateRAGResponse passes.
SKIP_COUNT == 8
TAKE_COUNT == 10
FinalCount == 4
RelatedLimit == 20

\* Array.prototype.slice(from, to) with 0-based bounds.
Slice(seq, from, to) ==
    IF from >= Len(seq) THEN <<>>
    ELSE SubSeq(seq, from + 1, IF to < Len(seq) THEN to ELSE Len(seq))

\* client.search(..., {limit}): the best `limit` hits.
Search(hits, limit) == Slice(hits, 0, limit)

\* The deduplication loop: a result is kept unless an earlier one has the same
\* clean question.
RECURSIVE UniqueResults(_, _)
UniqueResults(results, seen) ==
    IF results = <<>> THEN <<>>
    ELSE IF CleanQuestion(Head(results)) \in seen
         THEN UniqueResults(Tail(results), seen)
         ELSE <<Head(results)>> \o
              UniqueResults(Tail(results), seen \cup {CleanQuestion(Head(results))})

\* A sampling that takes its window from the best hit on (mutant).
getRelatedQuestions_noSkip(hits, topK) ==
    Slice(UniqueResults(Slice(Search(hits, topK), 0, TAKE_COUNT), {}), 0, FinalCount)

\* RelatedQuestions.getRelatedQuestions(query, topK): the questions returned.
getRelatedQuestions(hits, topK) ==
    Slice(UniqueResults(Slice(Search(hits, topK), SKIP_COUNT, SKIP_COUNT + TAKE_COUNT), {}),
          0, FinalCount)

\* JSRAG.retrieveDocuments(query, topK): the documents used as answer context.
retrieveDocuments(hits, topK) == Search(hits, topK)

\* The numbers of documents the index holds for the query, and the topK values
\* of the requests.
HitCounts == {17, 18, 20}
Ranks == 1..RelatedLimit
TopKs == {3, 8, 10}

NoAnswer == [made |-> FALSE, topK |-> 0, hits |-> <<>>, context |-> <<>>, related |-> <<>>]

\* JSRAG.indexDocuments stores a document that is already in the index once
\* more (every point gets a new id), and the copy ranks at position dst.
IndexDuplicate(src, dst) ==
    /\ src # dst
    /\ src <= Len(searchHits)
    /\ dst <= Len(searchHits)
    /\ Cardinality({i \in 1..Len(searchHits) : searchHits[i] # Document(i)}) < MaxCopies
    /\ searchHits[src] = Document(src)
    /\ searchHits[dst] = Document(dst)
    /\ searchHits' = [searchHits EXCEPT ![dst] = Respelled(searchHits[src])]
    /\ UNCHANGED <<now, rlVars, cacheVars, pmVars, relLast, botVars, outVars, routeVars, flightVars>>

\* generateRAGResponse(query, sessionId, provider, topK): the context documents
\* and the related questions of the answer.
AnswerRAG(topK) ==
    /\ relLast' = [made    |-> TRUE,
                   topK    |-> topK,
                   hits    |-> searchHits,
                   context |-> retrieveDocuments(searchHits, topK),
                   related |-> getRelatedQuestions(searchHits, RelatedLimit)]
    /\ UNCHANGED <<now, rlVars, cacheVars, pmVars, searchHits, botVars, outVars, routeVars, flightVars>>

InitRelated ==
    /\ searchHits = [i \in Ranks |-> Document(i)]
    /\ relLast = NoAnswer

\* The index holds any of HitCounts documents for the query.
InitAnyIndex ==
    /\ \E n \in HitCounts : searchHits = [i \in 1..n |-> Document(i)]
    /\ relLast = NoAnswer

\* =================================================== ConversationalChatbot

Sessions == {"s1", "s2"}

\* The messages of the requests: "hi" has no keyword, "API" is one in upper
\* case, "rapid" has one inside a word.
Queries == { <<"h", "i">>, <<"A", "P", "I">>, <<"r", "a", "p", "i", "d">> }

\* The text a provider generates.
ResponseText == <<"o", "k">>

\* needsRAG: the keyword list.
ragKeywords ==
    { <<"h", "o", "w", " ", "t", "o">>,
      <<"h", "o", "w", " ", "d", "o", " ", "i">>,
      <<"s", "e", "t", "u", "p">>,
      <<"c", "o", "n", "f", "i", "g", "u", "r", "e">>,
      <<"i", "n", "s", "t", "a", "l", "l">>,
      <<"c", "r", "e", "a", "t", "e">>,
      <<"d", "e", "l", "e", "t", "e">>,
      <<"u", "p", "d", "a", "t", "e">>,
      <<"m", "a", "n", "a", "g", "e">>,
      <<"f", "e", "a", "t", "u", "r", "e">>,
      <<"f", "u", "n", "c", "t", "i", "o", "n", "a", "l", "i", "t", "y">>,
      <<"a", "p", "i">>,
      <<"d", "o", "c", "u", "m", "e", "n", "t", "a", "t", "i", "o", "n">>,
      <<"g", "u", "i", "d", "e">>,
      <<"t", "u", "t", "o", "r", "i", "a", "l">>,
      <<"p", "r", "i", "c", "i", "n", "g">>,
      <<"c", "o", "s", "t">>,
      <<"b", "i", "l", "l", "i", "n", "g">>,
      <<"p", "a", "y", "m", "e", "n", "t">>,
      <<"s", "u", "p", "p", "o", "r", "t">>,
      <<"h", "e", "l", "p">>,
      <<"t", "r", "o", "u", "b", "l", "e", "s", "h", "o", "o", "t">>,
      <<"e", "r", "r", "o", "r">>,
      <<"i", "s", "s", "u", "e">> }

\* String.prototype.includes
Includes(text, part) ==
    \E i \in 1..(Len(text) - Len(part) + 1) : SubSeq(text, i, i + Len(part) - 1) = part

\* needsRAG(query)
needsRAG(query) == \E keyword \in ragKeywords : Includes(ToLowerCase(query), keyword)

\* The size a session's history is cut to.
HistoryLimit == 20

\* An addToHistory that drops the newest turn on overflow (mutant).
addToHistory_dropsNewest(history, turn) ==
    LET pushed == Append(history, turn)
    IN  IF Len(pushed) > HistoryLimit THEN SubSeq(pushed, 1, HistoryLimit) ELSE pushed

\* addToHistory(sessionId, role, message): the session's history after
\* history.push(...) and, above the limit, history.shift().
addToHistory(history, turn) ==
    LET pushed == Append(history, turn)
    IN  IF Len(pushed) > HistoryLimit THEN Tail(pushed) ELSE pushed

\* The two addToHistory calls of a successful generation.
AddExchange(history, query, response) ==
    addToHistory(addToHistory(history, [role |-> "user", message |-> query]),
                 [role |-> "assistant", message |-> response])

\* The number of messages getConversationContext returns at most (limit = 5).
ContextLimit == 5

\* getConversationContext(sessionId): history.slice(-limit), the last messages
\* of the session ([] for a session the Map does not hold).
getConversationContext(history) ==
    IF Len(history) <= ContextLimit THEN history
    ELSE SubSeq(history, Len(history) - ContextLimit + 1, Len(history))

\* What retrieveDocuments can return: a failure ({success: false}), no document,
\* documents without content, documents with content.
Retrievals ==
    { [success |-> FALSE, documents |-> <<>>],
      [success |-> TRUE,  documents |-> <<>>],
      [success |-> TRUE,  documents |-> << <<>>, <<>> >>],
      [success |-> TRUE,  documents |-> << <<"d">> >>],
      [success |-> TRUE,  documents |-> << <<>>, <<"d">> >>] }

\* contextDocs.filter((doc) => doc.content).map((doc) => doc.content)
ContextTexts(docs) == SelectSeq(docs, LAMBDA content : content # <<>>)

\* A context built from every document, with or without content (mutant).
HasContext_unfiltered(retrieval) ==
    retrieval.success /\ retrieval.documents # <<>> /\ retrieval.documents # << <<>> >>

\* if (contextText): contextTexts.join("\n\n") is not the empty string.
HasContext(retrieval) ==
    retrieval.success /\ ContextTexts(retrieval.documents) # <<>>

\* The outcomes of the provider invocations of one call, in order.
LlmOutcomes == {"ok", "fails"}

\* The fields of the result objects.
ConversationalFields ==
    {"response", "provider", "model", "usage", "conversational", "sessionId", "query"}
ConversationalErrorFields == {"error", "query", "provider", "conversational"}
RAGFields ==
    {"response", "provider", "model", "usage", "ragUsed", "contextDocuments",
     "sessionId", "query", "retrievedDocuments", "relatedQuestions"}

\* generateConversationalResponse: given the provider invocations made so far
\* and the outcome of its one invocation, the invocations, the result and the
\* session's history afterwards.
generateConversationalResponse(query, history, calls, outcome) ==
    LET made == Append(calls, [prompt  |-> "conversational",
                               context |-> getConversationContext(history),
                               outcome |-> outcome])
    IN  IF outcome = "ok"
        THEN [calls   |-> made,
              fields  |-> ConversationalFields,
              history |-> AddExchange(history, query, ResponseText)]
        ELSE [calls   |-> made,
              fields  |-> ConversationalErrorFields,
              history |-> history]

\* generateRAGResponse: without context it hands over to
\* generateConversationalResponse; with context it invokes the provider with the
\* retrieval prompt, and whatever is thrown inside its try block is answered by
\* generateConversationalResponse as well.
generateRAGResponse(query, history, retrieval, outcomes) ==
    IF ~HasContext(retrieval)
    THEN generateConversationalResponse(query, history, <<>>, outcomes[1])
    ELSE IF outcomes[1] = "ok"
         THEN [calls   |-> <<[prompt  |-> "rag",
                                context |-> getConversationContext(history),
                                outcome |-> "ok"]>>,
               fields  |-> RAGFields,
               history |-> AddExchange(history, query, ResponseText)]
         ELSE generateConversationalResponse(
                  query, history,
                  <<[prompt  |-> "rag",
                     context |-> getConversationContext(history),
                     outcome |-> "fails"]>>,
                  outcomes[2])

\* The values of the useRag argument: left out (null), true, false.
UseRagValues == {"null", "true", "false"}

\* const shouldUseRAG = useRag === null ? this.needsRAG(query) : useRag
shouldUseRAG(query, useRag) == IF useRag = "null" THEN needsRAG(query) ELSE useRag = "true"

\* generateResponse(query, sessionId, provider, useRag, topK)
generateResponse(query, history, useRag, retrieval, outcomes) ==
    IF shouldUseRAG(query, useRag)
    THEN generateRAGResponse(query, history, retrieval, outcomes)
    ELSE generateConversationalResponse(query, history, <<>>, outcomes[1])

NoCall == [made |-> FALSE, query |-> <<>>, useRag |-> "null", rag |-> FALSE,
           history |-> <<>>,
           retrieval |-> [success |-> FALSE, documents |-> <<>>],
           calls |-> <<>>, fields |-> {}]

\* The number of turns the sessions hold, all together.
RECURSIVE Turns(_, _)
Turns(ss, h) ==
    IF ss = {} THEN 0
    ELSE LET x == CHOOSE y \in ss : TRUE
         IN  Len(h[x]) + Turns(ss \ {x}, h)

\* A call of generateResponse, with what the index and the provider answer.
GenerateResponse(query, sessionId, useRag, retrieval, outcomes) ==
    /\ Turns(Sessions, conversationHistory) < 2 * MaxExchanges
    /\ LET res == generateResponse(query, conversationHistory[sessionId], useRag,
                                   retrieval, outcomes)
       IN  /\ conversationHistory' = [conversationHistory EXCEPT ![sessionId] = res.history]
           /\ hAppended' = [hAppended EXCEPT
                               ![sessionId] = @ + (Len(res.history)
                                                   - Len(conversationHistory[sessionId]))]
           /\ genLast' = [made      |-> TRUE,
                          query     |-> query,
                          useRag    |-> useRag,
                          rag       |-> shouldUseRAG(query, useRag),
                          history   |-> conversationHistory[sessionId],
                          retrieval |-> retrieval,
                          calls     |-> res.calls,
                          fields    |-> res.fields]
    /\ UNCHANGED <<now, rlVars, cacheVars, pmVars, relVars, outVars, routeVars, flightVars>>

\* The turn a caller appends as the n-th of a session: user and assistant take
\* turns, and no two messages of a session are alike.
Turn(n) == [role |-> IF n % 2 = 1 THEN "user" ELSE "assistant", message |-> n]

\* addToHistory(sessionId, role, message)
AddToHistory(sessionId) ==
    /\ hAppended[sessionId] < MaxAppends
    /\ conversationHistory' = [conversationHistory EXCEPT
            ![sessionId] = addToHistory(@, Turn(hAppended[sessionId] + 1))]
    /\ hAppended' = [hAppended EXCEPT ![sessionId] = @ + 1]
    /\ UNCHANGED <<now, rlVars, cacheVars, pmVars, relVars, genLast, outVars, routeVars, flightVars>>

\* clearHistory(sessionId)
ClearHistory(sessionId) ==
    /\ hAppended[sessionId] > 0
    /\ conversationHistory' = [conversationHistory EXCEPT ![sessionId] = <<>>]
    /\ hAppended' = [hAppended EXCEPT ![sessionId] = 0]
    /\ UNCHANGED <<now, rlVars, cacheVars, pmVars, relVars, genLast, outVars, routeVars, flightVars>>

InitChatbot ==
    /\ conversationHistory = [x \in Sessions |-> <<>>]
    /\ hAppended = [x \in Sessions |-> 0]
    /\ genLast = NoCall

\* ----------------------------------- generateResponse calls in flight together

\* The calls made on the one chatbot; the query of a call is its own name.
Calls == {"c1", "c2", "c3"}

CallQuery(c) == <<c>>

NewCall == [pc |-> "new", sessionId |-> "s1", path |-> "none"]

\* The paths of a call: the conversational one, and the retrieval one with
\* usable context.
Paths == {"conversational", "rag"}

\* generateResponse(query, sessionId, ...) is called and reaches its provider
\* invocation: await this.llmFactory.generateResponse(provider, prompt, options).
CallGenerate(c, sessionId, path) ==
    /\ inFlight[c].pc = "new"
    /\ inFlight' = [inFlight EXCEPT ![c] = [pc |-> "llm", sessionId |-> sessionId, path |-> path]]
    /\ UNCHANGED <<now, rlVars, cacheVars, pmVars, relVars, botVars, outVars, routeVars,
                   hCompleted>>

\* The provider invocation of a call returns a reply.  On the conversational
\* path the two addToHistory calls follow at once; on the retrieval path the call
\* next awaits this.getRelatedQuestions(query, 20).
ProviderReturns(c) ==
    /\ inFlight[c].pc = "llm"
    /\ hCompleted' = Append(hCompleted, c)
    /\ IF inFlight[c].path = "conversational"
       THEN /\ inFlight' = [inFlight EXCEPT ![c].pc = "done"]
            /\ conversationHistory' =
                  [conversationHistory EXCEPT
                      ![inFlight[c].sessionId] = AddExchange(@, CallQuery(c), ResponseText)]
            /\ hAppended' = [hAppended EXCEPT ![inFlight[c].sessionId] = @ + 2]
       ELSE /\ inFlight' = [inFlight EXCEPT ![c].pc = "related"]
            /\ UNCHANGED <<conversationHistory, hAppended>>
    /\ UNCHANGED <<now, rlVars, cacheVars, pmVars, relVars, genLast, outVars, routeVars>>

\* The provider invocation of a call throws.  The conversational path returns
\* an error result; the retrieval path's catch calls
\* generateConversationalResponse, which invokes the provider again.
ProviderThrows(c) ==
    /\ inFlight[c].pc = "llm"
    /\ inFlight' = IF inFlight[c].path = "conversational"
                THEN [inFlight EXCEPT ![c].pc = "failed"]
                ELSE [inFlight EXCEPT ![c].path = "conversational"]
    /\ UNCHANGED <<now, rlVars, cacheVars, pmVars, relVars, botVars, outVars, routeVars,
                   hCompleted>>

\* The related-questions search of a call on the retrieval path returns (with
\* questions or with a failure result): the two addToHistory calls follow.
RelatedReturns(c) ==
    /\ inFlight[c].pc = "related"
    /\ inFlight' = [inFlight EXCEPT ![c].pc = "done"]
    /\ conversationHistory' =
          [conversationHistory EXCEPT
              ![inFlight[c].sessionId] = AddExchange(@, CallQuery(c), ResponseText)]
    /\ hAppended' = [hAppended EXCEPT ![inFlight[c].sessionId] = @ + 2]
    /\ UNCHANGED <<now, rlVars, cacheVars, pmVars, relVars, genLast, outVars, routeVars,
                   hCompleted>>

InitFlight ==
    /\ inFlight = [c \in Calls |-> NewCall]
    /\ hCompleted = <<>>

\* ============================================================ POST /message

\* The caller the chat requests come from (req.ip).
RouteCallers == {"ip-A"}

\* A field of the request body that may be left out.
Unset == "unset"

\* The topK values of the bodies: left out, 5, 11.
TopKValues == {[set |-> FALSE, v |-> 0], [set |-> TRUE, v |-> 5], [set |-> TRUE, v |-> 11]}

Body(message, useRag, topK, provider, implementation) ==
    [message |-> message, useRag |-> useRag, topK |-> topK, provider |-> provider,
     implementation |-> implementation]

\* The request bodies: well-formed ones, and one malformed in each validated
\* field (empty message, useRag that is no boolean, topK 11, unknown provider).
Bodies ==
    {Body(<<"h", "i">>, u, [set |-> FALSE, v |-> 0], Unset, i) :
        u \in {Unset, "true", "false"}, i \in {Unset, "python"}}
    \cup {Body(<<"A", "P", "I">>, Unset, [set |-> FALSE, v |-> 0], Unset, Unset),
          Body(<<"h", "i">>, "true", [set |-> TRUE, v |-> 5], "openai", "javascript"),
          Body(<<>>, Unset, [set |-> FALSE, v |-> 0], Unset, Unset),
          Body(<<"h", "i">>, "maybe", [set |-> FALSE, v |-> 0], Unset, Unset),
          Body(<<"h", "i">>, Unset, [set |-> TRUE, v |-> 11], Unset, Unset),
          Body(<<"h", "i">>, Unset, [set |-> FALSE, v |-> 0], "bogus", Unset)}

\* body("message").isLength({min: 1, max: 2000})
MaxMessageLength == 2000

\* The validators of the route: validationResult(req).isEmpty()
Valid(body) ==
    /\ Len(body.message) \in 1..MaxMessageLength
    /\ body.provider \in {Unset, "gemini", "openai", "deepseek"}
    /\ body.useRag \in {Unset, "true", "false"}
    /\ ~body.topK.set \/ body.topK.v \in 1..10
    /\ body.implementation \in {Unset, "python", "javascript"}

\* const {provider = "gemini", useRag = true, topK = 3, implementation =
\* "javascript"} = req.body
Defaults(body) ==
    [message        |-> body.message,
     provider       |-> IF body.provider = Unset THEN "gemini" ELSE body.provider,
     useRag         |-> IF body.useRag = Unset THEN TRUE ELSE body.useRag = "true",
     topK           |-> IF body.topK.set THEN body.topK.v ELSE 3,
     implementation |-> IF body.implementation = Unset THEN "javascript"
                        ELSE body.implementation]

\* The four-tuple the cache is asked with.
CacheTuple(d) == <<d.message, d.provider, d.useRag, d.topK>>

\* The fields of the worker's structured reply, as the handler reads them, and
\* of a structured reply that reports an error.
PythonPayload ==
    {"response", "provider", "model", "usage", "rag_used", "context_documents"}
PythonErrorPayload == {"error"}

\* What executeScript ends with for the handler: the worker exits with 0 and a
\* JSON reply, with 0 and plain text, with 1; it times out; it cannot be started.
WorkerOutcomes ==
    { CloseResult(0, <<"{}">>, <<>>), CloseResult(0, <<"x">>, <<" ">>),
      CloseResult(1, <<>>, <<"w">>), TimeoutError, SpawnError }

\* The value an executeScript promise resolves with: its fields (the parsed
\* object has the fields the worker printed).
ResolvedFields(outcome, payload) ==
    IF outcome.kind = "parsed" THEN payload ELSE {"output", "stderr"}

\* What queryCache.get and queryCache.set do in one request: both return, or one
\* of them throws (crypto.createHash("md5") throws where the digest is disabled).
CacheFaults == {"none", "get", "set"}

\* The index answers of the route's requests: a failed retrieval, documents
\* with content.
RouteRetrievals ==
    { [success |-> FALSE, documents |-> <<>>],
      [success |-> TRUE,  documents |-> << <<"d">> >>] }

\* A request that meets nothing (it is answered before the handler's body).
NoGeneration ==
    [retrieval |-> [success |-> FALSE, documents |-> <<>>],
     outcomes |-> [i \in 1..2 |-> "ok"], worker |-> TimeoutError,
     payload |-> PythonPayload, cacheFault |-> "none"]

\* What one request meets: the cache calls, and in its generation the index and
\* the provider on the in-process path, the worker on the other.
Generations(body) ==
    IF ~Valid(body) THEN {NoGeneration}
    ELSE IF Defaults(body).implementation = "python"
    THEN UNION { [retrieval : {NoGeneration.retrieval}, outcomes : {NoGeneration.outcomes},
                  worker : {w},
                  payload : IF w.kind = "parsed" THEN {PythonPayload, PythonErrorPayload}
                            ELSE {PythonPayload},
                  cacheFault : CacheFaults] : w \in WorkerOutcomes }
    ELSE IF Defaults(body).useRag
    THEN [retrieval : RouteRetrievals, outcomes : [1..2 -> LlmOutcomes],
          worker : {TimeoutError}, payload : {PythonPayload}, cacheFault : CacheFaults]
    ELSE [retrieval : {NoGeneration.retrieval},
          outcomes : {[i \in 1..2 |-> o] : o \in LlmOutcomes},
          worker : {TimeoutError}, payload : {PythonPayload}, cacheFault : CacheFaults]

\* The conversation history of the chatbot the handler makes for the request:
\* new ConversationalChatbot() starts with an empty Map.
NewChatbotHistory == <<>>

\* The in-process generation of the handler: generateResponse on a new chatbot.
RouteGenerateResponse(d, g) ==
    generateResponse(d.message, NewChatbotHistory, BoolStr(d.useRag), g.retrieval, g.outcomes)

\* The generation step of the handler (no cached result): aiResult's fields, or
\* {"error"} when the handler throws (an error field in the result, a rejected
\* executeScript).
Generate(d, g) ==
    IF d.implementation = "javascript"
    THEN LET res == RouteGenerateResponse(d, g)
         IN  IF "error" \in res.fields THEN {"error"}
             ELSE res.fields \cup {"implementation"}
    ELSE IF g.worker.kind \in {"parsed", "raw"}
         THEN IF "error" \in ResolvedFields(g.worker, g.payload) THEN {"error"}
              ELSE ResolvedFields(g.worker, g.payload) \cup {"implementation"}
         ELSE {"error"}

\* A handler that never throws on a result (mutant).
Throws_never(aiResult) == FALSE

\* if (aiResult.error) throw new Error(aiResult.error); a rejected executeScript
\* is thrown by the await itself.
Throws(aiResult) == "error" \in aiResult

\* The conversation context in the prompt of the in-process generation's last
\* provider invocation.
PromptContext(d, g) ==
    LET res == RouteGenerateResponse(d, g)
    IN  res.calls[Len(res.calls)].context

\* A request mutated to run the generation ahead of the cache lookup (mutant).
Pipeline_generateFirst ==
    <<"rateLimit", "validate", "generate", "cacheGet", "cacheSet", "reply">>

\* The steps of POST /message in the order the route runs them: the
\* rate-limiting middleware, the validators with the handler's validationResult
\* check, then in the handler the cache lookup, the generation, the cache store
\* and the reply.
Pipeline ==
    <<"rateLimit", "validate", "cacheGet", "generate", "cacheSet", "reply">>

\* One step of a request.  st is the request so far: the status answered (0:
\* none yet), the steps run, the cache, and aiResult.  A step after the answer
\* does not run (the middleware or the handler has returned, or the handler's
\* catch has answered 500).
Step(name, st, x) ==
    LET d    == Defaults(x.body)
        t    == CacheTuple(d)
        ran  == [st EXCEPT !.steps = Append(@, name)]
        hit  == cacheGetResult(st.cache, t)
        made == Generate(d, x.g)
    IN  IF st.status # 0 THEN st
        ELSE CASE name = "rateLimit" ->
                    [ran EXCEPT !.rl = TRUE,
                                !.status = IF checkLimitResult(x.ip).allowed THEN 0 ELSE 429]
               [] name = "validate" ->
                    [ran EXCEPT !.status = IF Valid(x.body) THEN 0 ELSE 400]
               [] name = "cacheGet" ->
                    IF st.aiResult THEN st
                    ELSE IF x.g.cacheFault = "get"
                    THEN [ran EXCEPT !.status = 500, !.cacheFailed = "get"]
                    ELSE IF hit.found
                    THEN [ran EXCEPT !.cache = cacheGet(st.cache, t),
                                     !.aiResult = TRUE, !.hit = TRUE,
                                     !.hits = hit.cacheHits,
                                     !.fields = hit.response.fields \cup {"cached"},
                                     !.origin = hit.response.sessionId]
                    ELSE [ran EXCEPT !.cache = cacheGet(st.cache, t)]
               [] name = "generate" ->
                    IF st.aiResult THEN st
                    ELSE IF Throws(made)
                    THEN [ran EXCEPT !.status = 500, !.genFailed = TRUE]
                    ELSE [ran EXCEPT
                             !.aiResult = TRUE, !.fields = made, !.origin = x.sessionId,
                             !.genFailed = "error" \in made,
                             !.rag = (d.implementation = "javascript"
                                      /\ shouldUseRAG(d.message, BoolStr(d.useRag))),
                             !.context = IF d.implementation = "javascript"
                                         THEN PromptContext(d, x.g) ELSE <<>>]
               [] name = "cacheSet" ->
                    IF st.hit \/ ~st.aiResult THEN st
                    ELSE IF x.g.cacheFault = "set"
                    THEN [ran EXCEPT !.status = 500, !.cacheFailed = "set"]
                    ELSE [ran EXCEPT
                             !.cache = cacheSet(st.cache, t,
                                                [fields |-> st.fields, sessionId |-> st.origin]),
                             !.setRec = SetRecord(st.cache, t)]
               [] name = "reply" ->
                    [ran EXCEPT !.status = 200]

\* The steps of a request, run one after the other.
RECURSIVE RunPipeline(_, _, _)
RunPipeline(steps, st, x) ==
    IF steps = <<>> THEN st
    ELSE RunPipeline(Tail(steps), Step(Head(steps), st, x), x)

\* A request as it arrives.
NewRequest ==
    [status |-> 0, steps |-> <<>>, rl |-> FALSE, cache |-> cache, setRec |-> setLast,
     aiResult |-> FALSE, hit |-> FALSE, hits |-> 0, fields |-> {}, origin |-> "none",
     genFailed |-> FALSE, rag |-> FALSE, context |-> <<>>, cacheFailed |-> "none"]

NoRequest == [made |-> FALSE, valid |-> FALSE, status |-> 0, rlChanged |-> FALSE,
              flag |-> Unset, query |-> <<>>, implementation |-> Unset,
              generated |-> FALSE, rag |-> FALSE, fields |-> {},
              sessionId |-> "none", origin |-> "none", steps |-> <<>>, hit |-> FALSE,
              tuple |-> <<>>,
              genFailed |-> FALSE, generation |-> "none", cacheFailed |-> "none",
              context |-> <<>>, earlier |-> 0]

\* POST /message from an authenticated caller under the monthly limit, in a chat
\* session that is found: the rate-limiting middleware, the validators, the
\* handler (defaults, cache lookup, generation, cache store, reply).
PostMessage(ip, sessionId, body, g) ==
    \E fin \in {RunPipeline(Pipeline, NewRequest,
                             [ip |-> ip, sessionId |-> sessionId, body |-> body, g |-> g])} :
        /\ fin.hit => fin.hits <= MaxHits
        /\ IF fin.rl THEN CheckLimitEffects(ip)
           ELSE UNCHANGED <<requests, blockedIPs, rlLast, hEpisode, emitted>>
        /\ cache' = fin.cache
        /\ setLast' = fin.setRec
        /\ hReplied' = IF fin.status = 200 THEN [hReplied EXCEPT ![sessionId] = @ + 1]
                       ELSE hReplied
        /\ routeLast' =
              [made           |-> TRUE,
               valid          |-> Valid(body),
               status         |-> fin.status,
               rlChanged      |-> fin.rl /\ (checkLimitRequests(ip) # requests
                                             \/ checkLimitBlocked(ip) # blockedIPs),
               flag           |-> body.useRag,
               query          |-> body.message,
               implementation |-> Defaults(body).implementation,
               generated      |-> "generate" \in {fin.steps[i] : i \in 1..Len(fin.steps)},
               rag            |-> fin.rag,
               fields         |-> IF fin.status = 200 THEN fin.fields ELSE {},
               sessionId      |-> sessionId,
               origin         |-> IF fin.status = 200 THEN fin.origin ELSE "none",
               steps          |-> fin.steps,
               hit            |-> fin.hit,
               tuple          |-> CacheTuple(Defaults(body)),
               genFailed      |-> fin.genFailed,
               generation     |-> IF ~Valid(body) THEN "none"
                                  ELSE IF "error" \in Generate(Defaults(body), g)
                                  THEN "fails" ELSE "ok",
               cacheFailed    |-> fin.cacheFailed,
               context        |-> fin.context,
               earlier        |-> hReplied[sessionId]]
        /\ UNCHANGED <<now, windowMs, maxRequests, maxSize, reqs, cLast, hStored, pmVars,
                       relVars, botVars, flightVars>>

InitRoute ==
    /\ routeLast = NoRequest
    /\ hReplied = [x \in Sessions |-> 0]

InitApp ==
    /\ InitRelated
    /\ InitChatbot
    /\ emitted = {}
    /\ InitRoute
    /\ InitFlight

\* ================================================================== system

\* The clock advances.
Tick ==
    /\ now < MaxTime
    /\ now' = now + 1
    /\ UNCHANGED <<rlVars, cacheVars, pmVars, appVars>>

Init ==
    /\ now = 1
    /\ windowMs = WindowMs
    /\ maxRequests = MaxCeiling
    /\ InitRateLimiter
    /\ InitCache
    /\ processTimeout = DefaultProcessTimeout
    /\ InitProcessManager
    /\ InitApp

\* The rate limiter constructed with any window length and ceiling.
InitAnyLimiter ==
    /\ now = 1
    /\ windowMs \in {WindowMs, LongWindowMs}
    /\ maxRequests \in 1..MaxCeiling
    /\ InitRateLimiter
    /\ InitCache
    /\ processTimeout = DefaultProcessTimeout
    /\ InitProcessManager
    /\ InitApp

\* The process manager with its timeout as constructed, or switched off.
InitAnyTimeout ==
    /\ now = 1
    /\ windowMs = WindowMs
    /\ maxRequests = MaxCeiling
    /\ InitRateLimiter
    /\ InitCache
    /\ processTimeout \in {0, DefaultProcessTimeout}
    /\ InitProcessManager
    /\ InitApp

NextRateLimiter ==
    \/ \E ip \in IPs : CheckLimit(ip)
    \/ \E ip \in IPs : ResetIP(ip)
    \/ ClearExpired
    \/ Tick

SpecRateLimiter == InitAnyLimiter /\ [][NextRateLimiter]_vars

\* The rate limiter with its statistics read.
NextLimiterLog ==
    \/ \E ip \in IPs : CheckLimit(ip)
    \/ \E ip \in IPs : ResetIP(ip)
    \/ ClearExpired
    \/ GetStats
    \/ Tick

SpecLimiterLog == Init /\ [][NextLimiterLog]_vars

\* The clock advances (cache).
CacheTick ==
    /\ now < MaxCacheTime
    /\ now' = now + 1
    /\ UNCHANGED <<rlVars, cacheVars, pmVars, appVars>>

NextCache ==
    \/ \E r \in Reqs, t \in Tuples : ReqLookup(r, t)
    \/ \E r \in Reqs, text \in Responses : ReqGenerated(r, text)
    \/ \E r \in Reqs : ReqFailed(r)
    \/ \E t \in Tuples : Has(t)
    \/ Cleanup
    \/ CacheTick

SpecCache == Init /\ [][NextCache]_vars

\* The cache constructed with any capacity up to MaxCapacity.
InitAnyCapacity ==
    /\ now = 1
    /\ windowMs = WindowMs
    /\ maxRequests = MaxCeiling
    /\ InitRateLimiter
    /\ maxSize \in 1..MaxCapacity
    /\ setLast = NoSet
    /\ cache = <<>>
    /\ reqs = [r \in Reqs |-> IdleReq]
    /\ cLast = NoLookup
    /\ hStored = [t \in Tuples |-> [at |-> 0, hits |-> 0]]
    /\ processTimeout = DefaultProcessTimeout
    /\ InitProcessManager
    /\ InitApp

\* The cache under direct set, get and cleanup calls.
NextEviction ==
    \/ \E t \in EvictionTuples : Set(t, "R1")
    \/ \E t \in EvictionTuples : Get(t)
    \/ Cleanup
    \/ CacheTick

SpecEviction == InitAnyCapacity /\ [][NextEviction]_vars

NextWorker ==
    \/ \E p \in Procs : ExecuteScript(p)
    \/ \E p \in Procs : ScriptMissing(p)
    \/ \E p \in Procs : SpawnThrows(p)
    \/ \E p \in Procs, starts \in BOOLEAN : Spawn(p, starts)
    \/ \E p \in Procs, chunk \in StdoutChunks : StdoutData(p, chunk)
    \/ \E p \in Procs, chunk \in StderrChunks : StderrData(p, chunk)
    \/ \E p \in Procs, code \in ExitCodes : ChildClose(p, code)
    \/ \E p \in Procs : ChildError(p)
    \/ \E p \in Procs : Timeout(p)
    \/ \E p \in Procs : KillProcess(p)
    \/ Shutdown

SpecWorker == InitAnyTimeout /\ [][NextWorker]_vars

\* The chatbot over an index of any of the sizes in HitCounts.
InitIndexed ==
    /\ now = 1
    /\ windowMs = WindowMs
    /\ maxRequests = MaxCeiling
    /\ InitRateLimiter
    /\ InitCache
    /\ processTimeout = DefaultProcessTimeout
    /\ InitProcessManager
    /\ InitAnyIndex
    /\ InitChatbot
    /\ emitted = {}
    /\ InitRoute
    /\ InitFlight

NextRelated ==
    \/ \E src \in Ranks, dst \in Ranks : IndexDuplicate(src, dst)
    \/ \E topK \in TopKs : AnswerRAG(topK)

SpecRelated == InitIndexed /\ [][NextRelated]_vars

NextChatbot ==
    \E query \in Queries, sessionId \in Sessions, useRag \in UseRagValues,
       retrieval \in Retrievals, outcomes \in [1..2 -> LlmOutcomes] :
        GenerateResponse(query, sessionId, useRag, retrieval, outcomes)

SpecChatbot == Init /\ [][NextChatbot]_vars

NextHistory ==
    \/ \E sessionId \in Sessions : AddToHistory(sessionId)
    \/ \E sessionId \in Sessions : ClearHistory(sessionId)

SpecHistory == Init /\ [][NextHistory]_vars

NextFlight ==
    \/ \E c \in Calls, sessionId \in Sessions, path \in Paths : CallGenerate(c, sessionId, path)
    \/ \E c \in Calls : ProviderReturns(c)
    \/ \E c \in Calls : ProviderThrows(c)
    \/ \E c \in Calls : RelatedReturns(c)

SpecFlight == Init /\ [][NextFlight]_vars

\* The chat route with one chat session and a cache that answers.
NextRoute ==
    \E ip \in RouteCallers, body \in Bodies :
        \E g \in {y \in Generations(body) : y.cacheFault = "none"} :
            PostMessage(ip, "s1", body, g)

SpecRoute == Init /\ [][NextRoute]_vars

\* Three well-formed bodies: the conversational path, the retrieval path, the
\* worker.
ShortBodies ==
    { Body(<<"h", "i">>, "false", [set |-> FALSE, v |-> 0], Unset, Unset),
      Body(<<"h", "i">>, "true", [set |-> FALSE, v |-> 0], Unset, Unset),
      Body(<<"h", "i">>, Unset, [set |-> FALSE, v |-> 0], Unset, "python") }

\* The chat route with a cache whose calls may throw.
NextRouteFaults ==
    \E ip \in RouteCallers, body \in ShortBodies :
        \E g \in Generations(body) : PostMessage(ip, "s1", body, g)

SpecRouteFaults == Init /\ [][NextRouteFaults]_vars

\* The chat route with requests in two chat sessions.
NextSessions ==
    \E ip \in RouteCallers, sessionId \in Sessions, body \in ShortBodies :
        \E g \in {y \in Generations(body) : y.cacheFault = "none"} :
            PostMessage(ip, sessionId, body, g)

SpecSessions == Init /\ [][NextSessions]_vars

\* The chat route with the clock advancing between requests.
NextRouteTimed ==
    \/ \E ip \in RouteCallers, body \in ShortBodies :
          \E g \in {y \in Generations(body) : y.cacheFault = "none"} :
              PostMessage(ip, "s1", body, g)
    \/ CacheTick

SpecRouteTimed == Init /\ [][NextRouteTimed]_vars

\* --------------------------------------------------------------- C1

\* C1: for one caller inside one window, starting with no window and no block,
\* the first maxRequests calls of checkLimit are allowed, the next one is denied
\* with reason "Rate limit exceeded", and that call leaves the caller blocked
\* until the time of the call plus the block duration.
C1_Windowing ==
    \A ip \in IPs :
        LET e == hEpisode[ip]
        IN  /\ e.n \in 1..maxRequests => e.allowed
            /\ e.n = maxRequests + 1 =>
                  /\ ~e.allowed
                  /\ e.reason = "Rate limit exceeded"
                  /\ e.blockFor = BlockMs

\* A caller has made ceiling + 1 calls inside one window, with a ceiling above 1.
C1_Witness ==
    \E ip \in IPs : maxRequests > 1 /\ hEpisode[ip].n = maxRequests + 1

\* --------------------------------------------------------------- C2

\* C2: a checkLimit call made while the caller has a block whose expiry time is
\* still ahead is denied, whatever the caller's request window is (open, expired
\* or removed).
C2_BlockPrecedence ==
    (rlLast.made /\ rlLast.at < rlLast.blockedUntil) => ~rlLast.res.allowed

\* A blocked caller whose window has expired or been removed was denied.
C2_Witness ==
    /\ rlLast.made
    /\ rlLast.at < rlLast.blockedUntil
    /\ rlLast.window \in {"none", "expired"}
    /\ ~rlLast.res.allowed

\* --------------------------------------------------------------- C3

\* C3: two cache hits for the same four-tuple, the second no later than the TTL
\* after the entry that served the first was stored, return the same response
\* content, and the second reports a larger cacheHits, under any interleaving of
\* chat requests.
C3_CacheDeterminism ==
    ( /\ cLast.made /\ cLast.op = "get" /\ cLast.found
      /\ cLast.prev.tuple = cLast.tuple
      /\ cLast.at <= cLast.prev.storedAt + TtlMs )
    => /\ cLast.response = cLast.prev.response
       /\ cLast.cacheHits > cLast.prev.cacheHits

\* --------------------------------------------------------------- C4

\* C4 as stated: an entry stored at time T is reported absent (get null, has
\* false) by every lookup at a time >= T + TTL.
C4_ExpiryAtTtl ==
    (cLast.made /\ cLast.storedAt > 0 /\ cLast.at >= cLast.storedAt + TtlMs)
    => ~cLast.found

\* C4 as amended: an entry stored at time T is reported absent by every lookup
\* at a time > T + TTL, and a lookup at exactly T + TTL still finds an entry that
\* is in the cache.
C4_ExpiryAfterTtl ==
    /\ (cLast.made /\ cLast.storedAt > 0 /\ cLast.at > cLast.storedAt + TtlMs)
       => ~cLast.found
    /\ (cLast.made /\ cLast.present /\ cLast.at = cLast.storedAt + TtlMs)
       => cLast.found

\* A lookup later than T + TTL found the entry still in the Map and reported it
\* absent.
C4_Witness ==
    /\ cLast.made
    /\ cLast.storedAt > 0
    /\ cLast.at > cLast.storedAt + TtlMs
    /\ cLast.present
    /\ ~cLast.found

\* --------------------------------------------------------------- C5

\* C5: the first request served from the cache after a result was stored is
\* tagged cached = true with cacheHits = 1, and a request for a four-tuple that
\* was never stored (it differs in topK from the stored one) is a miss.
C5_FirstHitCountsOne ==
    /\ (cLast.made /\ cLast.op = "get" /\ cLast.found /\ cLast.hitNo = 1)
       => (cLast.cached /\ cLast.cacheHits = 1)
    /\ (cLast.made /\ cLast.storedAt = 0) => ~cLast.found

\* --------------------------------------------------------------- C6

\* C6: a process started by executeScript that has not closed has its timer
\* armed (processTimeout > 0), and once the timer has fired the process has been
\* sent a termination signal, its entry is out of the active-process registry
\* and the executeScript call has failed with the timeout error.
C6_WorkerTimeout ==
    \A p \in Procs :
        /\ procs[p].timer = "fired" =>
              /\ procs[p].kills >= 1
              /\ p \notin activeProcesses
              /\ procs[p].outcome = TimeoutError
        /\ (procs[p].child = "alive" /\ processTimeout > 0) =>
              procs[p].timer \in {"armed", "fired"}

\* The timer of a running, registered process has fired: the process was
\* signalled once and is still alive, out of the registry.
C6_Witness ==
    \E p \in Procs :
        /\ procs[p].timer = "fired"
        /\ procs[p].child = "alive"
        /\ procs[p].kills = 1
        /\ p \notin activeProcesses

\* --------------------------------------------------------------- C7

\* C7: an invocation whose process closed, errored or timed out has an outcome;
\* an outcome, once there, never changes (a close after the timeout leaves the
\* timeout error); and once the process has closed or errored its timer does
\* not fire and it is sent no kill signal.
C7_ExactlyOneOutcome ==
    /\ [](\A p \in Procs :
            (procs[p].closed \/ procs[p].errored \/ procs[p].timer = "fired")
                => procs[p].outcome # Pending)
    /\ [][\A p \in Procs :
            /\ procs[p].outcome # Pending => procs'[p].outcome = procs[p].outcome
            /\ (procs[p].closed \/ procs[p].errored) =>
                  /\ procs'[p].timer = "fired" => procs[p].timer = "fired"
                  /\ procs'[p].kills = procs[p].kills]_vars

\* A process closed with code 0 after its timer had fired, and the invocation
\* still has the timeout error; another one closed first and kept its timer
\* cleared.
C7_Witness ==
    /\ \E p \in Procs :
          /\ procs[p].timer = "fired"
          /\ procs[p].closed
          /\ procs[p].exitCode = 0
          /\ procs[p].outcome = TimeoutError
    /\ \E p \in Procs :
          /\ procs[p].timer = "cleared"
          /\ procs[p].closed
          /\ procs[p].outcome.kind \in {"parsed", "raw", "exit_error"}

\* --------------------------------------------------------------- C8

\* C8: what the 'close' handler passes to the promise depends on the exit code
\* alone: with code 0 the parsed stdout when the trimmed stdout is JSON, and
\* otherwise {output: trimmed stdout, stderr: trimmed stderr}; with any other
\* code an error carrying the code and the captured stderr, whatever stdout
\* holds.  It is the outcome of executeScript unless the promise was settled
\* before the close (by the timeout or by 'error').
C8_ExitHandling ==
    \A p \in Procs :
        procs[p].closed =>
            LET c    == procs[p].closeCall
                code == procs[p].exitCode
                out  == procs[p].stdout
                err  == procs[p].stderr
            IN  /\ (code = 0 /\ IsJSON(Trim(out))) =>
                      (c.kind = "parsed" /\ c.out = Trim(out))
                /\ (code = 0 /\ ~IsJSON(Trim(out))) =>
                      (c.kind = "raw" /\ c.out = Trim(out) /\ c.err = Trim(err))
                /\ code # 0 =>
                      (c.kind = "exit_error" /\ c.code = code /\ c.err = err)
                /\ (procs[p].timer # "fired" /\ ~procs[p].errored) =>
                      procs[p].outcome = c

\* One process wrote text that is not JSON, and a warning on stderr, exited with
\* code 0 and the call resolved with the raw text; another wrote JSON, exited
\* with code 1 and the call failed with the exit error.
C8_Witness ==
    /\ \E p \in Procs :
          /\ procs[p].closed
          /\ procs[p].exitCode = 0
          /\ Trim(procs[p].stdout) # <<>>
          /\ procs[p].stderr # <<>>
          /\ procs[p].outcome.kind = "raw"
    /\ \E p \in Procs :
          /\ procs[p].closed
          /\ procs[p].exitCode = 1
          /\ IsJSON(Trim(procs[p].stdout))
          /\ procs[p].outcome.kind = "exit_error"

\* --------------------------------------------------------------- C9

\* C9: an invocation whose process could not be started, because spawn threw or
\* because the child emitted 'error', has failed with the spawn-failure error
\* ("Failed to start Python process: ...") and has no entry in the
\* active-process registry.
C9_SpawnFailure ==
    \A p \in Procs :
        (procs[p].pc = "threw" \/ procs[p].errored) =>
            /\ procs[p].outcome = SpawnError
            /\ p \notin activeProcesses

\* --------------------------------------------------------------- C10

\* C10: every process that has been spawned and has not exited has an entry in
\* the active-process registry, also one that was sent the timeout kill signal
\* and has not exited yet.
C10_RegistryComplete ==
    \A p \in Procs : procs[p].child = "alive" => p \in activeProcesses

\* --------------------------------------------------------------- C11

\* C11: when SIGINT or SIGTERM ends the server, every process that is in the
\* registry at that moment is sent a termination signal and the registry is
\* empty when the server exits, with the entry point's own exiting handlers
\* registered for the same signals.
C11_ShutdownSweep ==
    [][(serverUp /\ ~serverUp') =>
          /\ activeProcesses' = {}
          /\ \A p \in activeProcesses :
                procs'[p].kills = procs[p].kills + 1]_vars

\* The server has exited on a signal that found every worker registered and
\* running: each was signalled, and none is registered any more.
C11_Witness ==
    /\ ~serverUp
    /\ activeProcesses = {}
    /\ \A p \in Procs :
          /\ procs[p].child = "alive"
          /\ procs[p].timer # "fired"
          /\ procs[p].kills = 1

\* --------------------------------------------------------------- C12

\* C12: when the search returns at least SKIP_COUNT + TAKE_COUNT hits, no related
\* question of the answer has the same normalized text (lower case, white space
\* collapsed) as one of the top SKIP_COUNT hits, whatever the index holds, texts
\* stored at several ranks included.
C12_RelatedDisjoint ==
    (relLast.made /\ Len(relLast.hits) >= SKIP_COUNT + TAKE_COUNT) =>
        \A i \in 1..Len(relLast.related), j \in 1..SKIP_COUNT :
            CleanQuestion(relLast.related[i]) # CleanQuestion(relLast.hits[j])

\* --------------------------------------------------------------- C13

\* C13: a generateResponse call that takes the retrieval path and gets no usable
\* context (the retrieval failed, returned no document, or only documents
\* without content) invokes the provider with the conversational prompt, its
\* result carries neither retrievedDocuments nor relatedQuestions, and it is a
\* successful generation when that invocation succeeds.
C13_GracefulDegradation ==
    ( /\ genLast.made
      /\ genLast.rag
      /\ \/ ~genLast.retrieval.success
         \/ \A i \in 1..Len(genLast.retrieval.documents) :
               genLast.retrieval.documents[i] = <<>> )
    => /\ Len(genLast.calls) = 1
       /\ genLast.calls[1].prompt = "conversational"
       /\ "retrievedDocuments" \notin genLast.fields
       /\ "relatedQuestions" \notin genLast.fields
       /\ genLast.calls[1].outcome = "ok" =>
             ("response" \in genLast.fields /\ "error" \notin genLast.fields)

\* A call forced to the retrieval path got documents, none with content, and
\* returned a successful conversational generation.
C13_Witness ==
    /\ genLast.made
    /\ genLast.useRag = "true"
    /\ genLast.retrieval.success
    /\ Len(genLast.retrieval.documents) = 2
    /\ \A i \in 1..2 : genLast.retrieval.documents[i] = <<>>
    /\ genLast.fields = ConversationalFields

\* --------------------------------------------------------------- C14

\* C14: a generateResponse call invokes the provider at most once, and when
\* that invocation fails the result is an error result.
C14_NoRetry ==
    genLast.made =>
        /\ Len(genLast.calls) <= 1
        /\ \A i \in 1..Len(genLast.calls) :
              genLast.calls[i].outcome = "fails" => "error" \in genLast.fields

\* --------------------------------------------------------------- C19

\* C19: each session's history holds at most HistoryLimit turns, and they are
\* the turns appended last, in the order they were appended.
C19_HistoryBound ==
    \A x \in Sessions :
        LET h == conversationHistory[x]
            n == hAppended[x]
        IN  /\ Len(h) <= HistoryLimit
            /\ Len(h) = IF n < HistoryLimit THEN n ELSE HistoryLimit
            /\ \A i \in 1..Len(h) : h[i] = Turn(n - Len(h) + i)

\* A session that was appended to more often than the limit: its two oldest
\* turns are gone.
C19_Witness ==
    \E x \in Sessions :
        /\ hAppended[x] = HistoryLimit + 2
        /\ Len(conversationHistory[x]) = HistoryLimit
        /\ conversationHistory[x][1] = Turn(3)

\* --------------------------------------------------------------- C15

\* C15: every caller identity in a log line or a statistics record of the rate
\* limiter is the hash of the identity, never the identity itself.
C15_IdentitiesHashed ==
    \A e \in emitted :
        /\ \E ip \in IPs : e.id = hashIP(ip)
        /\ \A ip \in IPs : e.id # IPText(ip)

\* --------------------------------------------------------------- C17

\* C17: the environment a worker process is started with holds only the
\* provider keys and the vector-index URL, key and collection name; no other
\* variable of the server's environment is in it.
C17_ConstrainedEnv ==
    \A p \in Procs : procs[p].child # "none" => procs[p].env \subseteq WorkerEnv

\* --------------------------------------------------------------- C16

\* C16: a chat request with a malformed body is answered with the validation
\* error (400), and it leaves the caller's request window and block state as
\* they were.
C16_ValidationFirst ==
    (routeLast.made /\ ~routeLast.valid) =>
        (routeLast.status = 400 /\ ~routeLast.rlChanged)

\* --------------------------------------------------------------- C18

\* C18: every result the chat route answers as a successful generation, made
\* in-process or by the worker, holds the generated text, the model identifier
\* and the usage record, also when the worker exits with code 0 and stdout that
\* is no JSON.
C18_SameContract ==
    routeLast.status = 200 => {"response", "model", "usage"} \subseteq routeLast.fields

\* --------------------------------------------------------------- C20

\* C20: a generateResponse call, and a chat request answered by the in-process
\* generation, takes the retrieval path when the flag is set to true, the
\* conversational path when it is set to false, and, when the flag is not set,
\* the retrieval path if and only if the lower-cased query contains a keyword.
C20_Classification ==
    /\ genLast.made =>
          /\ genLast.useRag = "true" => genLast.rag
          /\ genLast.useRag = "false" => ~genLast.rag
          /\ genLast.useRag = "null" => (genLast.rag <=> needsRAG(genLast.query))
    /\ ( /\ routeLast.status = 200
         /\ routeLast.generated
         /\ routeLast.implementation = "javascript" ) =>
          /\ routeLast.flag = "true" => routeLast.rag
          /\ routeLast.flag = "false" => ~routeLast.rag
          /\ routeLast.flag = Unset => (routeLast.rag <=> needsRAG(routeLast.query))

\* --------------------------------------------------------------- C28

\* C28: whenever checkLimit denies a caller and leaves that caller blocked, the
\* reported time to wait (remainingTime, in seconds) reaches the expiry of the
\* block: a caller that waits that long is past the block.
C28_RetryAfterSufficient ==
    [][ ( /\ rlLast' # rlLast
          /\ ~rlLast'.res.allowed
          /\ rlLast'.ip \in DOMAIN blockedIPs' ) =>
            rlLast'.at + rlLast'.res.remainingTime * MsPerSec >= blockedIPs'[rlLast'.ip]
      ]_vars

\* --------------------------------------------------------------- C29

\* C29: a checkLimit call that finds the caller's block expired is allowed, and
\* leaves no block record for the caller.
C29_BlockRelease ==
    [][ ( /\ rlLast' # rlLast
          /\ rlLast'.blockedUntil > 0
          /\ rlLast'.at >= rlLast'.blockedUntil ) =>
            (rlLast'.res.allowed /\ rlLast'.ip \notin DOMAIN blockedIPs')
      ]_vars

\* --------------------------------------------------------------- C22

\* C22: a set call that finds the cache at capacity removes exactly one entry,
\* and no entry it keeps was inserted before the one it removes, whatever the
\* hit counts; and the cache never holds more than maxSize entries.
C22_EvictsEarliestInserted ==
    /\ Len(cache) <= maxSize
    /\ (setLast.made /\ setLast.full) =>
          /\ Len(setLast.removed) = 1
          /\ \A i \in 1..Len(setLast.kept) :
                setLast.removed[1].timestamp <= setLast.kept[i].timestamp

\* --------------------------------------------------------------- C26

\* The ranks of the sampling window that the search filled.
SampleRanks(hits) ==
    {r \in (SKIP_COUNT + 1)..(SKIP_COUNT + TAKE_COUNT) : r <= Len(hits)}

CompletionRank(c) == CHOOSE i \in 1..Len(hCompleted) : hCompleted[i] = c

\* C25: in every session's history each user turn is followed at once by the
\* assistant turn of the same call, and the pairs stand in the order in which
\* the calls' provider invocations returned, whichever path a call took.
C25_HistoryOrder ==
    \A sessionId \in Sessions :
        LET h == conversationHistory[sessionId]
        IN  /\ Len(h) % 2 = 0
            /\ \A k \in 1..(Len(h) \div 2) :
                  h[2 * k - 1].role = "user" /\ h[2 * k].role = "assistant"
            /\ \A k \in 1..(Len(h) \div 2), l \in 1..(Len(h) \div 2) :
                  k < l =>
                    \E c \in Calls, e \in Calls :
                        /\ h[2 * k - 1].message = CallQuery(c)
                        /\ h[2 * l - 1].message = CallQuery(e)
                        /\ CompletionRank(c) < CompletionRank(e)

\* --------------------------------------------------------------- C21

\* The steps of the last request hold step a somewhere before step b.
RanBefore(a, b) ==
    \E i \in 1..Len(routeLast.steps), j \in 1..Len(routeLast.steps) :
        i < j /\ routeLast.steps[i] = a /\ routeLast.steps[j] = b

\* The last request ran the step.
Ran(a) == \E i \in 1..Len(routeLast.steps) : routeLast.steps[i] = a

\* C21: a chat request runs its generation only after the rate limiter has
\* allowed the caller and the cache lookup, run after the limiter, has missed; a
\* request the limiter denies runs neither the lookup nor the generation; a
\* request answered from the cache runs no generation.
C21_PipelineOrder ==
    routeLast.made =>
        /\ Ran("generate") =>
              /\ RanBefore("rateLimit", "cacheGet")
              /\ RanBefore("cacheGet", "generate")
              /\ rlLast.res.allowed
              /\ ~routeLast.hit
        /\ (Ran("rateLimit") /\ ~rlLast.res.allowed) =>
              (routeLast.status = 429 /\ ~Ran("cacheGet") /\ ~Ran("generate"))
        /\ routeLast.hit => ~Ran("generate")

\* A request the limiter allowed, whose lookup missed with another entry in the
\* cache, and which generated, stored and answered its reply.
C21_Witness ==
    /\ routeLast.made
    /\ routeLast.status = 200
    /\ routeLast.steps = <<"rateLimit", "validate", "cacheGet", "generate", "cacheSet", "reply">>
    /\ setLast.made /\ setLast.full
    /\ rlLast.res.allowed

\* --------------------------------------------------------------- C23

\* C23: a chat request whose cache lookup or cache store throws, and whose
\* generation yields a reply, is answered with that reply (200), not with an
\* error response.
C23_CacheBestEffort ==
    (routeLast.cacheFailed # "none" /\ routeLast.generation = "ok") =>
        routeLast.status = 200

\* --------------------------------------------------------------- C27

\* C27: the reply to a chat request was generated for a request of the same chat
\* session.
C27_SessionIsolation ==
    routeLast.status = 200 => routeLast.origin = routeLast.sessionId

\* --------------------------------------------------------------- C24

\* The last n messages of a history.
LastTurns(h, n) ==
    LET k == IF Len(h) < n THEN Len(h) ELSE n
    IN  [i \in 1..k |-> h[Len(h) - k + i]]

\* C24: the prompt of every provider invocation of a generateResponse call holds
\* the last ContextLimit messages of the session's history; and a chat request
\* generated in-process in a session with earlier answered requests has turns of
\* that session in its prompt.
C24_DialogueWindow ==
    /\ genLast.made =>
          \A i \in 1..Len(genLast.calls) :
              genLast.calls[i].context = LastTurns(genLast.history, ContextLimit)
    /\ ( /\ routeLast.status = 200
         /\ routeLast.generated
         /\ routeLast.implementation = "javascript"
         /\ routeLast.earlier > 0 ) =>
          routeLast.context # <<>>

\* --------------------------------------------------------------- C30

====
